---- MODULE Spec2Model ----
(***************************************************************************)
(* Currency store (CurrencyRatesCRUD over an in-memory SQLite table), the  *)
(* CBR feed client (get_currencies) and the controller that merges the     *)
(* feed into the store (CurrencyController.update_from_cbr), the user      *)
(* registry (UserController) and the start of the application (myapp.py).  *)
(*                                                                         *)
(* A Python value is a record [t, n]: t is its type ("int", "float",       *)
(* "str", "None", and "inf", "nan" for the floats that are no finite       *)
(* number) and n its numeric payload (0 when it has none).                 *)
(* A result of an operation is a record whose err field is the name of the *)
(* Python exception it raised, or "none".                                  *)
(***************************************************************************)
EXTENDS Integers, Sequences, FiniteSets

\* ---------------------------------------------------------------- bounds
\* largest id the AUTOINCREMENT counter may reach in the model
MaxId == 3
\* longest batch handed to _create
MaxBatch == 2
\* longest list of codes handed to update_from_cbr
MaxCodes == 2
\* most users added to one UserController
MaxUsers == 4
\* most rows of the table user, and of the table user_currency
MaxTab == 2

\* ---------------------------------------------------------------- values
PyInt(n) == [t |-> "int", n |-> n]
PyFloat(n) == [t |-> "float", n |-> n]
PyStr == [t |-> "str", n |-> 0]
PyNone == [t |-> "None", n |-> 0]
\* float("inf") and float("nan")
PyInf == [t |-> "inf", n |-> 0]
PyNan == [t |-> "nan", n |-> 0]

\* isinstance(value, (int, float))
IsNumber(v) == v.t \in {"int", "float", "inf", "nan"}

\* float(v): a number becomes a float, None raises TypeError, a
\* non-numeric string raises ValueError
float(v) ==
    IF v.t \in {"inf", "nan"} THEN [err |-> "none", val |-> v]
    ELSE IF IsNumber(v) THEN [err |-> "none", val |-> PyFloat(v.n)]
    ELSE IF v.t = "None" THEN [err |-> "TypeError", val |-> v]
    ELSE [err |-> "ValueError", val |-> v]

\* what SQLite stores in the column "value FLOAT" (REAL affinity): a number
\* is stored as a real, NaN is stored as NULL, NULL stays NULL
StoreValue(v) ==
    IF v.t = "nan" THEN PyNone
    ELSE IF v.t = "inf" THEN v
    ELSE IF IsNumber(v) THEN PyFloat(v.n)
    ELSE v

\* ---------------------------------------------------------------- codes
\* the character codes of the model, in several letter cases
Codes == {"USD", "usd", "EUR"}

\* str.upper() on the codes of the model
upper(s) ==
    CASE s = "usd" -> "USD"
      [] s = "eur" -> "EUR"
      [] OTHER -> s

\* mapping.get(char_code.upper(), "000")
_default_num_code(char_code) ==
    CASE upper(char_code) = "USD" -> "840"
      [] upper(char_code) = "EUR" -> "978"
      [] upper(char_code) = "GBP" -> "826"
      [] upper(char_code) = "AUD" -> "036"
      [] OTHER -> "000"

\* ---------------------------------------------------------------- store
\* The state of one CurrencyRatesCRUD: the rows of table currency as the
\* connection sees them, in rowid order; the AUTOINCREMENT counter of the
\* table (sqlite_sequence); the rows as of the last commit().
VARIABLES rows, seq, committed, last

\* The last call of get_currencies made on its own (fetched), the list and
\* the counter of one UserController (users, next_id), and where the
\* application is (pc): "start" before the rates are pulled at import,
\* "serving" once the server runs, "crashed" if the import raised.
VARIABLES fetched, users, next_id, pc

\* The rows of the tables user and user_currency of the store.
VARIABLES user_table, user_currency

vars == <<rows, seq, committed, last, fetched, users, next_id, pc,
          user_table, user_currency>>

store == <<rows, seq, committed, last>>

tables == <<user_table, user_currency>>

aux == <<fetched, users, next_id, pc, user_table, user_currency>>

\* the list the store was constructed with (myapp.py constructs it empty)
currency_rates_obj == <<>>

DB(r, s, c) == [rows |-> r, seq |-> s, committed |-> c]

\* executemany on a table whose id is INTEGER PRIMARY KEY without
\* AUTOINCREMENT: the new id is the largest id of the table plus one
RECURSIVE Executemany_MaxRowid(_, _)
Executemany_MaxRowid(db, data) ==
    IF data = <<>> THEN [err |-> "none", db |-> db]
    ELSE LET d == Head(data)
             top == IF db.rows = <<>> THEN 0 ELSE db.rows[Len(db.rows)].id
         IN
         IF \E i \in 1..Len(db.rows) : db.rows[i].char_code = d.char_code
         THEN [err |-> "IntegrityError", db |-> db]
         ELSE Executemany_MaxRowid(
                DB(Append(db.rows,
                          [id |-> top + 1, num_code |-> d.num_code,
                           char_code |-> d.char_code, name |-> d.name,
                           value |-> StoreValue(d.value),
                           nominal |-> d.nominal]),
                   top + 1, db.committed),
                Tail(data))

\* one INSERT of executemany: fails on a char_code equal (BINARY collation)
\* to the char_code of a row of the table
RECURSIVE Executemany(_, _)
Executemany(db, data) ==
    IF data = <<>> THEN [err |-> "none", db |-> db]
    ELSE LET d == Head(data) IN
         IF \E i \in 1..Len(db.rows) : db.rows[i].char_code = d.char_code
         THEN [err |-> "IntegrityError", db |-> db]
         ELSE Executemany(
                DB(Append(db.rows,
                          [id |-> db.seq + 1, num_code |-> d.num_code,
                           char_code |-> d.char_code, name |-> d.name,
                           value |-> StoreValue(d.value),
                           nominal |-> d.nominal]),
                   db.seq + 1, db.committed),
                Tail(data))

\* CurrencyRatesCRUD._create; data = <<>> stands for None and for []
_create(db, data) ==
    LET d == IF data = <<>> THEN currency_rates_obj ELSE data IN
    IF d = <<>> THEN [err |-> "none", db |-> db]
    ELSE LET r == Executemany(db, d) IN
         IF r.err = "none"
         THEN [err |-> "none", db |-> DB(r.db.rows, r.db.seq, r.db.rows)]
         ELSE r

\* CurrencyRatesCRUD._read; char_code = "" stands for None and for ""
_read(db, char_code) ==
    LET Match(r) == r.char_code = upper(char_code)
        sel == IF char_code # "" THEN SelectSeq(db.rows, Match) ELSE db.rows
        bad == {i \in 1..Len(sel) : float(sel[i].value).err # "none"}
    IN IF bad # {}
       THEN [err |-> float(sel[CHOOSE i \in bad : \A j \in bad : i <= j].value).err,
             rows |-> <<>>]
       ELSE [err |-> "none",
             rows |-> [i \in 1..Len(sel) |->
                         [sel[i] EXCEPT !.value = float(sel[i].value).val]]]

\* _update as an upsert: a code that matches no row gets a new row
_update_Upsert(db, code, val) ==
    LET f == float(val) IN
    IF f.err # "none" THEN [err |-> f.err, db |-> db]
    ELSE LET hit == \E i \in 1..Len(db.rows) : db.rows[i].char_code = upper(code)
             new == IF hit
                    THEN [i \in 1..Len(db.rows) |->
                            IF db.rows[i].char_code = upper(code)
                            THEN [db.rows[i] EXCEPT !.value = StoreValue(f.val)]
                            ELSE db.rows[i]]
                    ELSE Append(db.rows,
                                [id |-> db.seq + 1, num_code |-> "000",
                                 char_code |-> upper(code), name |-> upper(code),
                                 value |-> StoreValue(f.val), nominal |-> 1])
         IN [err |-> "none",
             db |-> DB(new, IF hit THEN db.seq ELSE db.seq + 1, new)]

\* _update comparing char_code with the code ignoring letter case
_update_AnyCase(db, code, val) ==
    LET f == float(val) IN
    IF f.err # "none" THEN [err |-> f.err, db |-> db]
    ELSE LET new == [i \in 1..Len(db.rows) |->
                       IF upper(db.rows[i].char_code) = upper(code)
                       THEN [db.rows[i] EXCEPT !.value = StoreValue(f.val)]
                       ELSE db.rows[i]]
         IN [err |-> "none", db |-> DB(new, db.seq, new)]

\* CurrencyRatesCRUD._update with currency = {code: val}
_update(db, code, val) ==
    LET f == float(val) IN
    IF f.err # "none" THEN [err |-> f.err, db |-> db]
    ELSE LET new == [i \in 1..Len(db.rows) |->
                       IF db.rows[i].char_code = upper(code)
                       THEN [db.rows[i] EXCEPT !.value = StoreValue(f.val)]
                       ELSE db.rows[i]]
         IN [err |-> "none", db |-> DB(new, db.seq, new)]

\* _delete with WHERE id <= ? in place of WHERE id = ?
_delete_UpTo(db, currency_id) ==
    LET Keep(r) == r.id > currency_id
        new == SelectSeq(db.rows, Keep)
    IN [err |-> "none", db |-> DB(new, db.seq, new)]

\* _delete with no WHERE
_delete_All(db, currency_id) == [err |-> "none", db |-> DB(<<>>, db.seq, <<>>)]

\* CurrencyRatesCRUD._delete
_delete(db, currency_id) ==
    LET Keep(r) == r.id # currency_id
        new == SelectSeq(db.rows, Keep)
    IN [err |-> "none", db |-> DB(new, db.seq, new)]

\* ---------------------------------------------------------------- user tables
\* CurrencyRatesCRUD.create_user: the insert into user, then the commit of
\* the connection, which also commits the rows of currency not yet committed
create_user(db, ut, name) ==
    [err |-> "none", db |-> DB(db.rows, db.seq, db.rows),
     user_table |-> Append(ut, [id |-> Len(ut) + 1, name |-> name]),
     id |-> Len(ut) + 1]

\* CurrencyRatesCRUD.read_users
read_users(ut) == ut

\* CurrencyRatesCRUD.get_user; found = FALSE stands for None
db_get_user(ut, user_id) ==
    LET hits == {i \in 1..Len(ut) : ut[i].id = user_id} IN
    IF hits = {} THEN [found |-> FALSE, user |-> [id |-> 0, name |-> ""]]
    ELSE [found |-> TRUE, user |-> ut[CHOOSE i \in hits : \A j \in hits : i <= j]]

\* CurrencyRatesCRUD.assign_currency_to_user: the insert into user_currency
\* (the foreign keys are not enforced), then the commit of the connection
assign_currency_to_user(db, uc, user_id, currency_id) ==
    [err |-> "none", db |-> DB(db.rows, db.seq, db.rows),
     user_currency |-> Append(uc, [id |-> Len(uc) + 1, user_id |-> user_id,
                                   currency_id |-> currency_id])]

\* the rows of currency joined to the rows of user_currency of one user
RECURSIVE Joined(_, _, _)
Joined(rs, uc, user_id) ==
    IF uc = <<>> THEN <<>>
    ELSE LET Match(r) == r.id = Head(uc).currency_id IN
         (IF Head(uc).user_id = user_id THEN SelectSeq(rs, Match) ELSE <<>>)
             \o Joined(rs, Tail(uc), user_id)

\* CurrencyRatesCRUD.get_user_currencies
get_user_currencies(db, uc, user_id) ==
    LET sel == Joined(db.rows, uc, user_id)
        bad == {i \in 1..Len(sel) : float(sel[i].value).err # "none"}
    IN IF bad # {}
       THEN [err |-> float(sel[CHOOSE i \in bad : \A j \in bad : i <= j].value).err,
             rows |-> <<>>]
       ELSE [err |-> "none",
             rows |-> [i \in 1..Len(sel) |->
                         [sel[i] EXCEPT !.value = float(sel[i].value).val]]]

\* ---------------------------------------------------------------- controller
\* CurrencyController.list_currencies
list_currencies(db) == _read(db, "")

\* CurrencyController.get_currency; found = FALSE stands for None
get_currency(db, char_code) ==
    LET result == _read(db, upper(char_code)) IN
    IF result.err # "none" THEN [err |-> result.err, found |-> FALSE, rows |-> <<>>]
    ELSE [err |-> "none", found |-> result.rows # <<>>,
          rows |-> IF result.rows # <<>> THEN <<result.rows[1]>> ELSE <<>>]

\* update_currency reaching every row whose char_code is the code in any case
update_currency_AnyCase(db, char_code, value) ==
    _update_AnyCase(db, upper(char_code), value)

\* CurrencyController.update_currency
update_currency(db, char_code, value) == _update(db, upper(char_code), value)

\* CurrencyController.delete_currency
delete_currency(db, currency_id) == _delete(db, currency_id)

\* ---------------------------------------------------------------- feed
\* The feed is what requests.get(url) gives: status "unreachable" (the
\* request raises), "badjson" (the body is not JSON), "novalute" (the
\* object has no key Valute) or "ok", and then valute maps the keys of
\* data["Valute"] to their Value.
FeedKeys == Codes

\* the Value the feed may give under a key: a rate, or something that is
\* not a number
FeedValues(k) ==
    CASE k = "USD" -> {PyInt(1)}
      [] k = "usd" -> {PyFloat(2), PyStr}
      [] OTHER -> {PyInt(1)}

NoValute == [k \in {} |-> PyNone]

Valutes(K) ==
    {v \in [K -> UNION {FeedValues(k) : k \in K}] : \A k \in K : v[k] \in FeedValues(k)}

Feeds ==
    {[status |-> s, valute |-> NoValute] : s \in {"unreachable", "badjson", "novalute"}}
    \cup {[status |-> "ok", valute |-> v] : v \in UNION {Valutes(K) : K \in SUBSET FeedKeys}}

\* the loop of get_currencies over currency_codes; result is the dict built
\* so far, as the sequence of its items in insertion order
RECURSIVE FetchLoop(_, _, _)
FetchLoop(currency_codes, valute, result) ==
    IF currency_codes = <<>> THEN [err |-> "none", rates |-> result]
    ELSE LET code == Head(currency_codes) IN
         IF code \notin DOMAIN valute THEN [err |-> "KeyError", rates |-> <<>>]
         ELSE IF ~IsNumber(valute[code]) THEN [err |-> "TypeError", rates |-> <<>>]
         ELSE FetchLoop(Tail(currency_codes), valute,
                        IF \E i \in 1..Len(result) : result[i].code = code
                        THEN [i \in 1..Len(result) |->
                                IF result[i].code = code
                                THEN [code |-> code, value |-> float(valute[code]).val]
                                ELSE result[i]]
                        ELSE Append(result,
                                    [code |-> code, value |-> float(valute[code]).val]))

\* get_currencies looking for every missing code before it looks at any Value
get_currencies_PresenceFirst(currency_codes, feed) ==
    IF feed.status = "unreachable" THEN [err |-> "ConnectionError", rates |-> <<>>]
    ELSE IF feed.status = "badjson" THEN [err |-> "ValueError", rates |-> <<>>]
    ELSE IF feed.status = "novalute" THEN [err |-> "KeyError", rates |-> <<>>]
    ELSE IF \E i \in 1..Len(currency_codes) : currency_codes[i] \notin DOMAIN feed.valute
    THEN [err |-> "KeyError", rates |-> <<>>]
    ELSE FetchLoop(currency_codes, feed.valute, <<>>)

\* cbr_api.get_currencies
get_currencies(currency_codes, feed) ==
    IF feed.status = "unreachable" THEN [err |-> "ConnectionError", rates |-> <<>>]
    ELSE IF feed.status = "badjson" THEN [err |-> "ValueError", rates |-> <<>>]
    ELSE IF feed.status = "novalute" THEN [err |-> "KeyError", rates |-> <<>>]
    ELSE FetchLoop(currency_codes, feed.valute, <<>>)

\* the loop of update_from_cbr over rates.items()
RECURSIVE MergeLoop(_, _)
MergeLoop(db, rates) ==
    IF rates = <<>> THEN [err |-> "none", db |-> db]
    ELSE LET code == Head(rates).code
             value == Head(rates).value
             cur == get_currency(db, code)
         IN IF cur.err # "none" THEN [err |-> cur.err, db |-> db]
            ELSE LET r == IF ~cur.found
                          THEN _create(db, <<[num_code |-> _default_num_code(code),
                                              char_code |-> code, name |-> code,
                                              value |-> value, nominal |-> 1]>>)
                          ELSE update_currency(db, code, value)
                 IN IF r.err # "none" THEN r ELSE MergeLoop(r.db, Tail(rates))

\* update_from_cbr fetching and merging one code at a time
RECURSIVE OneByOne(_, _, _)
OneByOne(db, currency_codes, feed) ==
    IF currency_codes = <<>> THEN [err |-> "none", db |-> db]
    ELSE LET rates == get_currencies(<<Head(currency_codes)>>, feed) IN
         IF rates.err # "none" THEN [err |-> rates.err, db |-> db]
         ELSE LET r == MergeLoop(db, rates.rates) IN
              IF r.err # "none" THEN r
              ELSE OneByOne(r.db, Tail(currency_codes), feed)

update_from_cbr_OneByOne(db, currency_codes, feed) ==
    LET response == get_currencies(<<>>, feed) IN
    IF response.err # "none" THEN [err |-> response.err, db |-> db]
    ELSE OneByOne(db, currency_codes, feed)

\* update_from_cbr rolling the store back when the merge of a code fails
update_from_cbr_Transactional(db, currency_codes, feed) ==
    LET rates == get_currencies(currency_codes, feed) IN
    IF rates.err # "none" THEN [err |-> rates.err, db |-> db]
    ELSE LET r == MergeLoop(db, rates.rates) IN
         IF r.err # "none" THEN [err |-> r.err, db |-> db] ELSE r

\* CurrencyController.update_from_cbr
update_from_cbr(db, currency_codes, feed) ==
    LET rates == get_currencies(currency_codes, feed) IN
    IF rates.err # "none" THEN [err |-> rates.err, db |-> db]
    ELSE MergeLoop(db, rates.rates)

\* ---------------------------------------------------------------- inputs
\* the records handed to _create by a direct caller
CreateValues == {PyInt(90)}
CreateRecords ==
    {[num_code |-> "999", char_code |-> c, name |-> "Name", value |-> v,
      nominal |-> 10] : c \in Codes, v \in CreateValues}

\* the rates handed to update_currency
UpdateValues == {PyInt(3)}

SeqsUpTo(S, n) == UNION {[1..k -> S] : k \in 0..n}

Batches == SeqsUpTo(CreateRecords, MaxBatch)

\* the lists of codes handed to update_from_cbr: no code twice
CodeLists ==
    {c \in SeqsUpTo(Codes, MaxCodes) : \A i, j \in 1..Len(c) : i # j => c[i] # c[j]}

\* ---------------------------------------------------------------- history
\* What the last call was: op its name, err the exception it raised, code
\* and id its argument, hit whether a row matched the argument before the
\* call (for update_from_cbr: whether its loop had merged a code before the
\* call ended), stage where update_from_cbr was when it ended ("fetch": inside
\* get_currencies, "merge": after it), n how many codes get_currencies had
\* accepted, or how many rows executemany had inserted, when the call ended.
Last(op, err, code, id, hit, stage, n) ==
    [op |-> op, err |-> err, code |-> code, id |-> id, hit |-> hit,
     stage |-> stage, n |-> n]

\* some row has this char_code, as SQLite compares it
HasCode(rs, char_code) == \E i \in 1..Len(rs) : rs[i].char_code = char_code

HasId(rs, id) == \E i \in 1..Len(rs) : rs[i].id = id

\* how many leading codes the loop of get_currencies accepts
RECURSIVE Accepted(_, _)
Accepted(currency_codes, feed) ==
    IF feed.status # "ok" \/ currency_codes = <<>> THEN 0
    ELSE IF Head(currency_codes) \notin DOMAIN feed.valute THEN 0
    ELSE IF ~IsNumber(feed.valute[Head(currency_codes)]) THEN 0
    ELSE 1 + Accepted(Tail(currency_codes), feed)

\* how many leading rates the loop of update_from_cbr merges
RECURSIVE Merged(_, _)
Merged(db, rates) ==
    IF rates = <<>> THEN 0
    ELSE LET r == MergeLoop(db, <<Head(rates)>>) IN
         IF r.err # "none" THEN 0 ELSE 1 + Merged(r.db, Tail(rates))

Here == DB(rows, seq, committed)

Becomes(db) ==
    /\ rows' = db.rows
    /\ seq' = db.seq
    /\ committed' = db.committed

\* ---------------------------------------------------------------- actions
NoFeed == [status |-> "none", valute |-> NoValute]

\* no call of get_currencies on its own yet
NoFetch == [codes |-> <<>>, feed |-> NoFeed, err |-> "none", rates |-> <<>>]

\* a CurrencyRatesCRUD() and a UserController() just constructed
Init ==
    /\ rows = <<>>
    /\ seq = 0
    /\ committed = <<>>
    /\ last = Last("init", "none", "", 0, FALSE, "", 0)
    /\ fetched = NoFetch
    /\ users = <<>>
    /\ next_id = 1
    /\ pc = "start"
    /\ user_table = <<>>
    /\ user_currency = <<>>

\* store.create(records)
Create ==
    \E data \in Batches :
        /\ seq + Len(data) <= MaxId
        /\ LET r == _create(Here, data) IN
           /\ Becomes(r.db)
           /\ last' = Last("create", r.err, "", 0, FALSE, "",
                           Len(r.db.rows) - Len(rows))
        /\ UNCHANGED aux

\* store.read(code) through CurrencyController.get_currency, and
\* store.read() through CurrencyController.list_currencies
Read ==
    \E code \in Codes \cup {""} :
        LET r == IF code = "" THEN list_currencies(Here)
                 ELSE get_currency(Here, code) IN
        /\ UNCHANGED <<rows, seq, committed>>
        /\ last' = Last("read", r.err, code, 0, r.rows # <<>>, "", Len(r.rows))
        /\ UNCHANGED aux

\* store.update(code, value) through CurrencyController.update_currency
Update ==
    \E code \in Codes, value \in UpdateValues :
        LET r == update_currency(Here, code, value) IN
        /\ Becomes(r.db)
        /\ last' = Last("update", r.err, code, 0, HasCode(rows, upper(code)), "", 0)
        /\ UNCHANGED aux

\* store.delete(id) through CurrencyController.delete_currency
Delete ==
    \E currency_id \in 1..(MaxId + 1) :
        LET r == delete_currency(Here, currency_id) IN
        /\ Becomes(r.db)
        /\ last' = Last("delete", r.err, "", currency_id, HasId(rows, currency_id), "", 0)
        /\ UNCHANGED aux

\* sync(codes) through CurrencyController.update_from_cbr, the feed giving
\* any of Feeds
Sync ==
    \E currency_codes \in CodeLists, feed \in Feeds :
        /\ seq + Len(currency_codes) <= MaxId
        /\ LET r == update_from_cbr(Here, currency_codes, feed) IN
           /\ Becomes(r.db)
           /\ last' = Last("sync", r.err, "", 0,
                           Merged(Here, get_currencies(currency_codes, feed).rates) >= 1,
                           IF get_currencies(currency_codes, feed).err # "none"
                           THEN "fetch" ELSE "merge",
                           Accepted(currency_codes, feed))
        /\ UNCHANGED aux

Next == Create \/ Read \/ Update \/ Delete \/ Sync

Spec == Init /\ [][Next]_vars

\* ---------------------------------------------------------------- application
\* float(s) of a string of the query of a request
str_float(s) ==
    CASE s = "3" -> [err |-> "none", val |-> PyFloat(3)]
      [] s = "-5" -> [err |-> "none", val |-> PyFloat(-5)]
      [] s = "inf" -> [err |-> "none", val |-> PyInf]
      [] s = "nan" -> [err |-> "none", val |-> PyNan]
      [] OTHER -> [err |-> "ValueError", val |-> PyStr]

\* the values a request may give in its query
QueryValues == {"3", "-5", "inf", "nan", "abc"}

\* currency_codes of myapp.py
app_currency_codes == <<"USD", "EUR", "GBP", "AUD">>

\* the feeds the import of myapp.py may meet
BootFeeds ==
    {[status |-> s, valute |-> NoValute] : s \in {"unreachable", "badjson", "novalute"}}
    \cup {[status |-> "ok", valute |-> v] :
            v \in UNION {[K -> {PyInt(1), PyStr}] :
                           K \in SUBSET {app_currency_codes[i] : i \in 1..Len(app_currency_codes)}}}

\* the loop of myapp.py over rates.items()
RECURSIVE BootLoop(_, _)
BootLoop(db, rates) ==
    IF rates = <<>> THEN [err |-> "none", db |-> db]
    ELSE LET code == Head(rates).code
             value == Head(rates).value
             existing == _read(db, code)
         IN IF existing.err # "none" THEN [err |-> existing.err, db |-> db]
            ELSE LET r == IF existing.rows = <<>>
                          THEN _create(db, <<[num_code |-> IF code = "USD" THEN "840"
                                                           ELSE IF code = "EUR" THEN "978"
                                                           ELSE IF code = "GBP" THEN "826"
                                                           ELSE "036",
                                              char_code |-> code, name |-> code,
                                              value |-> value, nominal |-> 1]>>)
                          ELSE _update(db, code, value)
                 IN IF r.err # "none" THEN r ELSE BootLoop(r.db, Tail(rates))

\* the body of the try of myapp.py
Bootstrap(db, feed) ==
    LET rates == get_currencies(app_currency_codes, feed) IN
    IF rates.err # "none" THEN [err |-> rates.err, db |-> db]
    ELSE BootLoop(db, rates.rates)

\* except clause that names the failure of the transport only
Caught_ConnectionOnly(err) == err = "ConnectionError"

\* except Exception: every exception of the model is an Exception
Caught(err) ==
    err \in {"ConnectionError", "ValueError", "KeyError", "TypeError", "IntegrityError"}

\* the import of myapp.py: the rates are pulled, a failure is printed
Boot ==
    /\ pc = "start"
    /\ \E feed \in BootFeeds :
        LET r == Bootstrap(Here, feed) IN
        /\ Becomes(r.db)
        /\ last' = Last("boot", r.err, "", 0, FALSE,
                        IF get_currencies(app_currency_codes, feed).err # "none"
                        THEN "fetch" ELSE "merge",
                        Accepted(app_currency_codes, feed))
        /\ pc' = IF r.err = "none" \/ Caught(r.err) THEN "serving" ELSE "crashed"
    /\ UNCHANGED <<fetched, users, next_id>>
    /\ UNCHANGED tables

\* GET / and GET /currencies: list_currencies
HttpList ==
    /\ pc = "serving"
    /\ LET r == list_currencies(Here) IN
       last' = Last("http_list", r.err, "", 0, r.rows # <<>>, "", Len(r.rows))
    /\ UNCHANGED <<rows, seq, committed>>
    /\ UNCHANGED aux

\* GET /currency/update?code=val: update_currency(code.upper(), float(val)),
\* then list_currencies for the page
HttpUpdate ==
    /\ pc = "serving"
    /\ \E code \in Codes, val \in QueryValues :
        LET f == str_float(val)
            r == IF f.err # "none" THEN [err |-> f.err, db |-> Here]
                 ELSE update_currency(Here, upper(code), f.val)
            page == list_currencies(r.db)
        IN /\ Becomes(r.db)
           /\ last' = Last("http_update", IF r.err # "none" THEN r.err ELSE page.err,
                           code, 0, HasCode(rows, upper(code)), "", 0)
    /\ UNCHANGED aux

\* GET /currency/delete?id=n: delete_currency(int(n)), then list_currencies
\* for the page
HttpDelete ==
    /\ pc = "serving"
    /\ \E currency_id \in 1..(MaxId + 1) :
        LET r == delete_currency(Here, currency_id)
            page == list_currencies(r.db)
        IN
        /\ Becomes(r.db)
        /\ last' = Last("http_delete", IF r.err # "none" THEN r.err ELSE page.err,
                        "", currency_id, HasId(rows, currency_id), "", 0)
    /\ UNCHANGED aux

\* ---------------------------------------------------------------- null values
\* records whose value is None, which the column value REAL accepts
NullRecords ==
    {[num_code |-> "999", char_code |-> c, name |-> "Name", value |-> PyNone,
      nominal |-> 10] : c \in Codes}

\* store.create([record]) with a record whose value may be None
CreateNullable ==
    \E record \in CreateRecords \cup NullRecords :
        /\ seq + 1 <= MaxId
        /\ LET r == _create(Here, <<record>>) IN
           /\ Becomes(r.db)
           /\ last' = Last("create", r.err, "", 0, FALSE, "",
                           Len(r.db.rows) - Len(rows))
        /\ UNCHANGED aux

NextNull == CreateNullable \/ Read \/ Update \/ Delete

SpecNull == Init /\ [][NextNull]_vars

\* ---------------------------------------------------------------- user tables
\* the names given to create_user
TableNames == {"Anton"}

\* db_controller.create_user(name)
CreateUser ==
    /\ Len(user_table) < MaxTab
    /\ \E name \in TableNames :
        LET r == create_user(Here, user_table, name) IN
        /\ Becomes(r.db)
        /\ user_table' = r.user_table
        /\ last' = Last("create_user", r.err, name, r.id, FALSE, "", Len(r.user_table))
    /\ UNCHANGED <<fetched, users, next_id, pc, user_currency>>

\* db_controller.read_users() and db_controller.get_user(id)
ReadUsers ==
    /\ \E user_id \in 0..(MaxTab + 1) :
        LET r == db_get_user(user_table, user_id) IN
        last' = Last("read_users", "none", r.user.name, user_id, r.found, "",
                     Len(read_users(user_table)))
    /\ UNCHANGED <<rows, seq, committed>>
    /\ UNCHANGED aux

\* db_controller.assign_currency_to_user(user_id, currency_id)
AssignCurrency ==
    /\ Len(user_currency) < MaxTab
    /\ \E user_id \in 1..MaxTab, currency_id \in 1..MaxTab :
        LET r == assign_currency_to_user(Here, user_currency, user_id, currency_id) IN
        /\ Becomes(r.db)
        /\ user_currency' = r.user_currency
        /\ last' = Last("assign", r.err, "", currency_id, HasId(rows, currency_id), "",
                        Len(r.user_currency))
    /\ UNCHANGED <<fetched, users, next_id, pc, user_table>>

\* db_controller.get_user_currencies(user_id)
UserCurrencies ==
    /\ \E user_id \in 1..MaxTab :
        LET r == get_user_currencies(Here, user_currency, user_id) IN
        last' = Last("user_currencies", r.err, "", user_id, r.rows # <<>>, "", Len(r.rows))
    /\ UNCHANGED <<rows, seq, committed>>
    /\ UNCHANGED aux

NextTables == Create \/ CreateUser \/ ReadUsers \/ AssignCurrency \/ UserCurrencies

SpecTables == Init /\ [][NextTables]_vars

\* ---------------------------------------------------------------- fetch
\* get_currencies(codes) called on its own, the feed giving any of Feeds
Fetch ==
    /\ \E codes \in SeqsUpTo(Codes, MaxCodes), feed \in Feeds :
        LET r == get_currencies(codes, feed) IN
        fetched' = [codes |-> codes, feed |-> feed, err |-> r.err, rates |-> r.rates]
    /\ UNCHANGED store
    /\ UNCHANGED <<users, next_id, pc>>
    /\ UNCHANGED tables

NextFetch == Fetch

SpecFetch == Init /\ [][NextFetch]_vars

\* ---------------------------------------------------------------- users
\* the names given to add_user
Names == {"Anton", "Maria", "Igor"}

\* User(name), whose id the controller sets
User(name) == [id |-> 0, name |-> name]

\* add_user that leaves next_id as it is
add_user_NoIncrement(us, nid, name) ==
    LET user == [User(name) EXCEPT !.id = nid] IN
    [users |-> Append(us, user), next_id |-> nid, user |-> user]

\* UserController.add_user
add_user(us, nid, name) ==
    LET user == [User(name) EXCEPT !.id = nid] IN
    [users |-> Append(us, user), next_id |-> nid + 1, user |-> user]

\* UserController.list_users
list_users(us) == us

\* UserController.get_user; found = FALSE stands for None
get_user(us, user_id) ==
    LET hits == {i \in 1..Len(us) : us[i].id = user_id} IN
    IF hits = {} THEN [found |-> FALSE, user |-> User("")]
    ELSE [found |-> TRUE, user |-> us[CHOOSE i \in hits : \A j \in hits : i <= j]]

\* user_controller.add_user(name)
AddUser ==
    /\ next_id <= MaxUsers
    /\ \E name \in Names :
        LET r == add_user(users, next_id, name) IN
        /\ users' = r.users
        /\ next_id' = r.next_id
        /\ last' = Last("add_user", "none", name, r.user.id, FALSE, "", Len(r.users))
    /\ UNCHANGED <<rows, seq, committed, fetched, pc>>
    /\ UNCHANGED tables

\* user_controller.get_user(id)
GetUser ==
    /\ \E user_id \in 0..(MaxUsers + 1) :
        LET r == get_user(users, user_id) IN
        last' = Last("get_user", "none", r.user.name, user_id, r.found, "", 0)
    /\ UNCHANGED <<rows, seq, committed>>
    /\ UNCHANGED aux

\* user_controller.list_users()
ListUsers ==
    /\ last' = Last("list_users", "none", "", 0, users # <<>>, "", Len(list_users(users)))
    /\ UNCHANGED <<rows, seq, committed>>
    /\ UNCHANGED aux

NextUsers == AddUser \/ GetUser \/ ListUsers

SpecUsers == Init /\ [][NextUsers]_vars

\* ---------------------------------------------------------------- application, its users
\* the names myapp.py gives add_user at import, in Latin letters
app_user_names == <<"Yaroslav", "Viktoria", "Anton">>

\* user_controller after the calls of add_user at the import of myapp.py
RECURSIVE AddAll(_, _, _)
AddAll(us, nid, names) ==
    IF names = <<>> THEN [users |-> us, next_id |-> nid]
    ELSE LET r == add_user(us, nid, Head(names)) IN
         AddAll(r.users, r.next_id, Tail(names))

\* myapp.py imported up to the construction of db_controller and
\* currency_controller: the users are added, no rate is pulled yet
InitApp ==
    /\ rows = <<>>
    /\ seq = 0
    /\ committed = <<>>
    /\ last = Last("init", "none", "", 0, FALSE, "", 0)
    /\ fetched = NoFetch
    /\ users = AddAll(<<>>, 1, app_user_names).users
    /\ next_id = AddAll(<<>>, 1, app_user_names).next_id
    /\ pc = "start"
    /\ user_table = <<>>
    /\ user_currency = <<>>

\* GET /users: list_users
HttpUsers ==
    /\ pc = "serving"
    /\ last' = Last("http_users", "none", "", 0, users # <<>>, "", Len(list_users(users)))
    /\ UNCHANGED <<rows, seq, committed>>
    /\ UNCHANGED aux

\* GET /user?id=n: get_user(int(n))
HttpUser ==
    /\ pc = "serving"
    /\ \E user_id \in 0..(MaxUsers + 1) :
        LET r == get_user(users, user_id) IN
        last' = Last("http_user", "none", r.user.name, user_id, r.found, "", 0)
    /\ UNCHANGED <<rows, seq, committed>>
    /\ UNCHANGED aux

NextApp == Boot \/ HttpList \/ HttpUpdate \/ HttpDelete \/ HttpUsers \/ HttpUser

SpecApp == InitApp /\ [][NextApp]_vars

\* ---------------------------------------------------------------- claims
\* the record store.read(code) gives for a code, if any
RecordFor(db, code) == get_currency(db, code)

\* the fixed table of numeric codes, by the upper-cased code
NumericCodeTable(code) ==
    CASE upper(code) = "USD" -> "840"
      [] upper(code) = "EUR" -> "978"
      [] upper(code) = "GBP" -> "826"
      [] upper(code) = "AUD" -> "036"
      [] OTHER -> "000"

\* C1: in every store state and for every feed, when sync(codes) succeeds,
\* a second sync(codes) with the same feed succeeds too and leaves the rows
\* exactly as the first sync left them.
C1_SyncIdempotent ==
    \A currency_codes \in CodeLists, feed \in Feeds :
        LET first == update_from_cbr(Here, currency_codes, feed) IN
        first.err = "none" =>
            LET second == update_from_cbr(first.db, currency_codes, feed) IN
            /\ second.err = "none"
            /\ second.db.rows = first.db.rows

\* C2: when sync(codes) succeeds and store.read gives no record for a
\* fetched code, afterwards store.read gives exactly one record for it, a
\* new one, with char_code and name the code, value the fetched rate,
\* nominal 1 and num_code from the fixed table.
C2_SyncCreatesAbsent ==
    \A currency_codes \in CodeLists, feed \in Feeds :
        LET rates == get_currencies(currency_codes, feed)
            r == update_from_cbr(Here, currency_codes, feed)
        IN r.err = "none" =>
            \A k \in 1..Len(rates.rates) :
                LET code == rates.rates[k].code
                    after == _read(r.db, code).rows
                IN ~RecordFor(Here, code).found =>
                    /\ Len(after) = 1
                    /\ after[1].id > seq
                    /\ after[1].char_code = code
                    /\ after[1].name = code
                    /\ after[1].value = rates.rates[k].value
                    /\ after[1].nominal = 1
                    /\ after[1].num_code = NumericCodeTable(code)

\* C3: when sync(codes) succeeds and store.read gives a record for a
\* fetched code, afterwards store.read gives exactly one record for it, with
\* the same id, name, nominal and num_code, and value the fetched rate.
C3_SyncUpdatesPresent ==
    \A currency_codes \in CodeLists, feed \in Feeds :
        LET rates == get_currencies(currency_codes, feed)
            r == update_from_cbr(Here, currency_codes, feed)
        IN r.err = "none" =>
            \A k \in 1..Len(rates.rates) :
                LET code == rates.rates[k].code
                    before == RecordFor(Here, code)
                    after == _read(r.db, code).rows
                IN before.found =>
                    /\ Len(after) = 1
                    /\ after[1] = [before.rows[1] EXCEPT !.value = rates.rates[k].value]

\* C4: a sync that ends inside the fetch raises the error of the fetch and
\* leaves the rows, the id counter and the committed rows as they were.
C4_FetchFailureLeavesStore ==
    [][(last'.op = "sync" /\ last'.stage = "fetch") =>
         /\ last'.err \in {"ConnectionError", "ValueError", "KeyError", "TypeError"}
         /\ rows' = rows
         /\ seq' = seq
         /\ committed' = committed]_vars

\* C4 witness: a sync over a store with rows ended in the fetch on a Value
\* that is not a number, after an earlier code had been accepted.
C4_Witness ==
    /\ last.op = "sync"
    /\ last.stage = "fetch"
    /\ last.err = "TypeError"
    /\ last.n >= 1
    /\ rows # <<>>

\* C5: store.create raises IntegrityError whenever a record of the batch has
\* a char_code equal, ignoring letter case, to the char_code of a row.
C5_CreateRejectsDuplicateIgnoringCase ==
    \A data \in Batches :
        (\E k \in 1..Len(data), i \in 1..Len(rows) :
            upper(data[k].char_code) = upper(rows[i].char_code))
        => _create(Here, data).err = "IntegrityError"

\* C6: a store.create that raises IntegrityError leaves the rows as they
\* were before the call.
C6_FailedCreateLeavesStore ==
    [][(last'.op = "create" /\ last'.err = "IntegrityError") => rows' = rows]_vars

\* C7: for every row and every letter-case variant of its char_code,
\* read(variant) gives exactly that row and get(variant) gives that row.
C7_ReadIgnoresCase ==
    \A i \in 1..Len(rows), v \in Codes :
        upper(v) = upper(rows[i].char_code) =>
            /\ _read(Here, v).err = "none"
            /\ _read(Here, v).rows = <<rows[i]>>
            /\ get_currency(Here, v).rows = <<rows[i]>>

\* C8: store.update(code, value) for a code that matches no row raises
\* nothing and leaves the rows and the id counter as they were.
C8_UpdateMissIsNoop ==
    [][(last'.op = "update" /\ ~last'.hit) =>
         /\ last'.err = "none"
         /\ rows' = rows
         /\ seq' = seq]_vars

\* C8 witness: an update of a code that matches no row, on a store with rows.
C8_Witness ==
    /\ last.op = "update"
    /\ ~last.hit
    /\ last.err = "none"
    /\ rows # <<>>

\* C9: store.delete(id) for an id that matches no row raises nothing and
\* leaves the rows and the id counter as they were.
C9_DeleteMissIsNoop ==
    [][(last'.op = "delete" /\ ~last'.hit) =>
         /\ last'.err = "none"
         /\ rows' = rows
         /\ seq' = seq]_vars

\* C9 witness: a delete of an id that matches no row, on a store with rows.
C9_Witness ==
    /\ last.op = "delete"
    /\ ~last.hit
    /\ last.err = "none"
    /\ rows # <<>>

\* C10: every row's char_code is upper-case and no two rows have the same
\* char_code.
C10_CodesUpperAndUnique ==
    /\ \A i \in 1..Len(rows) : rows[i].char_code = upper(rows[i].char_code)
    /\ \A i, j \in 1..Len(rows) : i # j => rows[i].char_code # rows[j].char_code

\* C11: a step never lowers the id counter, every row it adds has an id
\* above the counter, which is above or equal to every id assigned so far,
\* and an update or a sync keeps every row there was, under its id.
C11_IdsMonotonic ==
    [][/\ \A i \in 1..Len(rows) : rows[i].id <= seq
       /\ seq' >= seq
       /\ \A j \in 1..Len(rows') : ~HasId(rows, rows'[j].id) => rows'[j].id > seq
       /\ last'.op \in {"update", "sync"} =>
             \A i \in 1..Len(rows) :
                 \E j \in 1..Len(rows') :
                     /\ rows'[j].id = rows[i].id
                     /\ rows'[j].char_code = rows[i].char_code
                     /\ rows'[j].name = rows[i].name]_vars

\* C11 witness: a create added a row after a row had been deleted.
C11_Witness ==
    /\ last.op = "create"
    /\ last.err = "none"
    /\ last.n >= 1
    /\ \E id \in 1..seq : ~HasId(rows, id)

\* C12: the value of every row is a finite number and is not negative.
C12_ValuesFiniteNonNegative ==
    \A i \in 1..Len(rows) : rows[i].value.t = "float" /\ rows[i].value.n >= 0

\* C19: the import never ends in a crash: whatever the pull of the rates
\* raised, the application goes on to serve.
C19_BootFailureIsCaught ==
    [][last'.op = "boot" => pc' = "serving"]_vars

\* C19 witness: the pull of the rates failed, the store is empty and the
\* application has served a request for the list.
C19_Witness ==
    /\ pc = "serving"
    /\ last.op = "http_list"
    /\ last.err = "none"
    /\ rows = <<>>
    /\ seq = 0

\* C13: when the feed has, for every requested code, a key equal to it
\* ignoring letter case, get_currencies does not raise KeyError.
C13_FetchIgnoresCase ==
    (/\ fetched.feed.status = "ok"
     /\ \A i \in 1..Len(fetched.codes) :
           \E key \in DOMAIN fetched.feed.valute : upper(key) = upper(fetched.codes[i]))
    => fetched.err # "KeyError"

\* C14: every add_user appends a user with the name given and the next id,
\* so that the users listed have the ids 1, 2, ..., n in the order they
\* were added, get_user(i) gives the i-th of them and get_user of any other
\* id gives None.
C14_UserIdsSequential ==
    [][last'.op = "add_user" =>
         /\ list_users(users') = Append(users, [id |-> Len(users) + 1, name |-> last'.code])
         /\ \A i \in 1..Len(users') :
               /\ users'[i].id = i
               /\ get_user(users', i).found
               /\ get_user(users', i).user = users'[i]
         /\ \A id \in (0..(MaxUsers + 1)) \ (1..Len(users')) : ~get_user(users', id).found]_vars

\* C14 witness: a third user has been added.
C14_Witness ==
    /\ last.op = "add_user"
    /\ Len(users) >= 3
    /\ last.id = 3

\* the requested codes get_currencies has to refuse
Offending(codes, valute) ==
    {i \in 1..Len(codes) : codes[i] \notin DOMAIN valute \/ ~IsNumber(valute[codes[i]])}

\* C15: on a feed with Valute, get_currencies succeeds when no requested
\* code is missing or has a Value that is no number, and then its result has
\* the requested codes as keys, each with the Value of the feed as a float;
\* otherwise the first offending code, in the order of the request, decides:
\* KeyError if it is missing, TypeError if its Value is no number.
C15_FetchResult ==
    fetched.feed.status = "ok" =>
        LET codes == fetched.codes
            valute == fetched.feed.valute
            bad == Offending(codes, valute)
        IN IF bad = {}
           THEN /\ fetched.err = "none"
                /\ {fetched.rates[k].code : k \in 1..Len(fetched.rates)}
                     = {codes[i] : i \in 1..Len(codes)}
                /\ \A k, l \in 1..Len(fetched.rates) :
                      k # l => fetched.rates[k].code # fetched.rates[l].code
                /\ \A k \in 1..Len(fetched.rates) :
                      fetched.rates[k].value = PyFloat(valute[fetched.rates[k].code].n)
           ELSE LET first == CHOOSE i \in bad : \A j \in bad : i <= j IN
                fetched.err = IF codes[first] \notin DOMAIN valute
                              THEN "KeyError" ELSE "TypeError"

\* C15 witness: the first requested code has a Value that is no number, the
\* second is missing, and get_currencies raised TypeError.
C15_Witness ==
    /\ fetched.feed.status = "ok"
    /\ Len(fetched.codes) = 2
    /\ fetched.codes[1] \in DOMAIN fetched.feed.valute
    /\ ~IsNumber(fetched.feed.valute[fetched.codes[1]])
    /\ fetched.codes[2] \notin DOMAIN fetched.feed.valute
    /\ fetched.err = "TypeError"

\* the rows a read of everything shows for a code, under the code as given
\* or upper-cased
Shown(db, code) ==
    LET all == list_currencies(db).rows IN
    {all[i] : i \in {j \in 1..Len(all) : all[j].char_code \in {code, upper(code)}}}

\* C16: when get_currencies succeeds and the merge of the k-th fetched code
\* fails (its insert meets a row with the same char_code that the lookup by
\* the upper-cased code did not find), update_from_cbr leaves what it did for the codes before k in the
\* store, where a read of everything shows each of them with its fetched
\* rate, and the rows of the codes from k on are as they were before the call.
C16_SyncKeepsAppliedPrefix ==
    \A currency_codes \in CodeLists, feed \in Feeds :
        LET f == get_currencies(currency_codes, feed)
            r == update_from_cbr(Here, currency_codes, feed)
            Same(i, j) == upper(f.rates[i].code) = upper(f.rates[j].code)
        IN (f.err = "none" /\ r.err # "none") =>
            \E k \in 1..Len(f.rates) :
                /\ r.err = "IntegrityError"
                /\ HasCode(r.db.rows, f.rates[k].code)
                /\ ~HasCode(r.db.rows, upper(f.rates[k].code))
                /\ \A i \in 1..(k - 1) :
                      (\A j \in (i + 1)..(k - 1) : ~Same(i, j)) =>
                          \E row \in Shown(r.db, f.rates[i].code) :
                              row.value = f.rates[i].value
                /\ \A j \in k..Len(f.rates) :
                      (\A i \in 1..(k - 1) : ~Same(i, j)) =>
                          Shown(r.db, f.rates[j].code) = Shown(Here, f.rates[j].code)
                /\ Len(r.db.rows) <= Len(rows) + (k - 1)
                /\ Len(r.db.rows) >= Len(rows)

\* C16 witness: a sync whose fetch succeeded merged a code and then failed
\* on a later one.
C16_Witness ==
    /\ last.op = "sync"
    /\ last.stage = "merge"
    /\ last.err = "IntegrityError"
    /\ last.hit

\* C17: an update through update_currency with a code in any letter case
\* gives the new value to the rows whose char_code is the upper-cased code
\* and changes nothing else: every other row, and the id, num_code, name and
\* nominal of the matching row, are as before.
C17_UpdateTouchesOnlyValue ==
    [][(last'.op = "update" /\ last'.err = "none") =>
         /\ Len(rows') = Len(rows)
         /\ seq' = seq
         /\ \E value \in UpdateValues :
               \A i \in 1..Len(rows) :
                   rows'[i] = IF rows[i].char_code = upper(last'.code)
                              THEN [rows[i] EXCEPT !.value = float(value).val]
                              ELSE rows[i]]_vars

\* C17 witness: update("usd", 3) gave the row USD its value and left the
\* row usd with another one.
C17_Witness ==
    /\ last.op = "update"
    /\ last.code = "usd"
    /\ last.hit
    /\ \E i, j \in 1..Len(rows) :
          /\ rows[i].char_code = "USD"
          /\ rows[i].value = PyFloat(3)
          /\ rows[j].char_code = "usd"
          /\ rows[j].value # PyFloat(3)

\* C18: a delete of an id that some row has leaves no row with that id and
\* every other row in the store as it was, in the same order.
C18_DeleteRemovesOnlyThatRow ==
    [][(last'.op = "delete" /\ last'.hit) =>
         /\ ~HasId(rows', last'.id)
         /\ Len(rows') = Len(rows) - 1
         /\ seq' = seq
         /\ \A i \in 1..Len(rows) :
               rows[i].id # last'.id => \E j \in 1..Len(rows') : rows'[j] = rows[i]
         /\ \A i, j \in 1..Len(rows') : i < j => rows'[i].id < rows'[j].id]_vars

\* C18 witness: a delete removed a row that was not the last one and another
\* row is still there.
C18_Witness ==
    /\ last.op = "delete"
    /\ last.hit
    /\ last.id < seq
    /\ ~HasId(rows, last.id)
    /\ Len(rows) >= 1

\* C20: no read, of everything or of one code, raises.
C20_ReadNeverFails == last.op = "read" => last.err = "none"

\* the codes get_currencies gives update_from_cbr
FetchedCodes(rates) == {rates[k].code : k \in 1..Len(rates)}

\* C21, as stated: when sync(codes) succeeds, every row whose char_code is
\* none of the fetched codes is still in the store with every field as it
\* was, and every row there was is still there under its id.
C21_SyncTouchesOnlyFetched ==
    \A currency_codes \in CodeLists, feed \in Feeds :
        LET f == get_currencies(currency_codes, feed)
            r == update_from_cbr(Here, currency_codes, feed)
        IN r.err = "none" =>
            /\ \A i \in 1..Len(rows) :
                  rows[i].char_code \notin FetchedCodes(f.rates) =>
                      \E j \in 1..Len(r.db.rows) : r.db.rows[j] = rows[i]
            /\ \A i \in 1..Len(rows) : HasId(r.db.rows, rows[i].id)

\* C21, amended: when sync(codes) succeeds, every row whose char_code is not
\* the upper-cased form of a fetched code is still in the store with every
\* field as it was, a row whose char_code is one keeps everything but its
\* value, and every row there was is still there under its id.
C21_SyncTouchesOnlyFetchedUpper ==
    \A currency_codes \in CodeLists, feed \in Feeds :
        LET f == get_currencies(currency_codes, feed)
            r == update_from_cbr(Here, currency_codes, feed)
            touched == {upper(c) : c \in FetchedCodes(f.rates)}
        IN r.err = "none" =>
            /\ Len(r.db.rows) >= Len(rows)
            /\ \A i \in 1..Len(rows) :
                  /\ HasId(r.db.rows, rows[i].id)
                  /\ r.db.rows[i].id = rows[i].id
                  /\ IF rows[i].char_code \in touched
                     THEN [r.db.rows[i] EXCEPT !.value = rows[i].value] = rows[i]
                     ELSE r.db.rows[i] = rows[i]

\* C21 witness: a sync of one code succeeded, over a store with a row for
\* another code, which is there as the create before left it.
C21_Witness ==
    /\ last.op = "sync"
    /\ last.err = "none"
    /\ last.n = 1
    /\ last.hit
    /\ Len(rows) >= 2
    /\ \E i \in 1..Len(rows) : rows[i].name = "Name" /\ rows[i].value = PyFloat(90)

====
